---- MODULE Spec2Model ----
(***************************************************************************)
(* Model of reagent/workflow/model_managers/actor_critic_base.py:          *)
(*   - ActorCriticBase construction and run_feature_identification         *)
(*     (specification SpecIdentify),                                       *)
(*   - ActorCriticBase.metrics_to_score and ActorCriticBase.train          *)
(*     (specification SpecTrain),                                          *)
(*   - ActorPolicyWrapper.act on a shared actor network                    *)
(*     (specification SpecPolicy).                                         *)
(* Optional[X] values are sequences of length at most one: None is <<>>,   *)
(* a present value v is <<v>>.                                             *)
(***************************************************************************)
EXTENDS Integers, Sequences, FiniteSets, TLC

VARIABLES
    self,          \* the manager: None before / after a failed construction
    ctorArgs,      \* arguments of the construction attempt, None before it
    ctorError,     \* message of the assertion that failed in construction
    idCallCount,   \* calls of identify_normalization_parameters so far
    lastRfi,       \* last run_feature_identification: outcome, calls issued
    mtsLog,        \* values the metrics_to_score property has returned
    resolverCalls, \* calls of get_metrics_to_score so far
    trainPc,       \* position inside ActorCriticBase.train
    trainCall,     \* locals of the train call in progress
    trainCount,    \* train calls started so far
    driver,        \* train_and_evaluate_generic: its state and its arguments
    network,       \* the actor network: its training flag
    serialised,    \* whether the callers serialise access to the network
    pc,            \* position of each thread of control using the network
    local          \* locals of each thread of control

vars == <<self, ctorArgs, ctorError, idCallCount, lastRfi, mtsLog,
          resolverCalls, trainPc, trainCall, trainCount, driver,
          network, serialised, pc, local>>

managerVars == <<self, ctorArgs, ctorError>>
identifyVars == <<idCallCount, lastRfi>>
trainVars == <<mtsLog, resolverCalls, trainPc, trainCall, trainCount, driver>>
policyVars == <<network, serialised, pc, local>>

---------------------------------------------------------------------------
(* Bounds of the model *)

MaxFeatures == 2        \* longest float-feature list
MaxIdCalls == 4         \* identification calls over a manager's life
MaxAccesses == 3        \* metrics_to_score reads recorded
MaxResolverCalls == 2   \* cap on the resolver call counter
MaxTrainCalls == 2      \* train calls on one manager
MaxEpochs == 2          \* largest num_epochs

---------------------------------------------------------------------------
(* Optional values *)

None == <<>>
Some(v) == <<v>>
IsNone(o) == o = <<>>
Get(o) == o[1]

ToSet(s) == {s[i] : i \in DOMAIN s}

SeqsUpTo(S, n) == UNION {[1..k -> S] : k \in 0..n}

---------------------------------------------------------------------------
(* Input domains *)

FloatFeatures == {<<1, "f1">>, <<2, "f2">>}
FloatFeatureLists == SeqsUpTo(FloatFeatures, MaxFeatures)
Transforms == {"O1", "O2"}

\* PreprocessingOptions: the two options this manager reads and writes.
PreprocessingOptions == [whitelist_features |-> None, feature_overrides |-> None]

PreprocessingOptionsValues ==
    [whitelist_features : {None, Some(<<1>>), Some(<<>>)},
     feature_overrides : {None, Some([fid \in {1} |-> "O2"])}]

---------------------------------------------------------------------------
(* Collaborators *)

\* get_feature_config: the float feature infos, one per (id, name) pair, in
\* order; an absent list gives an empty configuration.
get_feature_config(float_features) ==
    LET ffs == IF IsNone(float_features) THEN <<>> ELSE Get(float_features)
    IN [float_feature_infos |->
          [i \in DOMAIN ffs |-> [feature_id |-> ffs[i][1], name |-> ffs[i][2]]]]

\* identify_normalization_parameters: parameters for the whitelisted features.
identify_normalization_parameters(table_spec, column, options) ==
    [fid \in ToSet(Get(options.whitelist_features)) |->
        IF ~IsNone(options.feature_overrides)
              /\ fid \in DOMAIN Get(options.feature_overrides)
        THEN Get(options.feature_overrides)[fid]
        ELSE "inferred"]

IdentifyCall(table_spec, column, options) ==
    [table_spec |-> table_spec, column |-> column, options |-> options]

---------------------------------------------------------------------------
(* ActorCriticBase: fields and construction *)

ManagerArgs(spo, apo, afo, sff, aff, ro, dap, obs) ==
    [state_preprocessing_options |-> spo,
     action_preprocessing_options |-> apo,
     action_feature_override |-> afo,
     state_float_features |-> sff,
     action_float_features |-> aff,
     reader_options |-> ro,
     default_action_preprocessing |-> dap,
     trainer_has_add_observer |-> obs]

\* Faulty variant: only the state options are checked.
PostInitFailureStateOnly(args) ==
    IF ~(IsNone(args.state_preprocessing_options)
         \/ IsNone(Get(args.state_preprocessing_options).whitelist_features))
    THEN Some("Please set state whitelist features in state_float_features field of config instead")
    ELSE None

\* The assertion of __post_init_post_parse__ that fails, None when both hold.
PostInitFailure(args) ==
    IF ~(IsNone(args.state_preprocessing_options)
         \/ IsNone(Get(args.state_preprocessing_options).whitelist_features))
    THEN Some("Please set state whitelist features in state_float_features field of config instead")
    ELSE IF ~(IsNone(args.action_preprocessing_options)
              \/ IsNone(Get(args.action_preprocessing_options).whitelist_features))
    THEN Some("Please set action whitelist features in action_float_features field of config instead")
    ELSE None

\* The manager as __post_init_post_parse__ leaves it.
PostInitFields(args) ==
    [state_preprocessing_options |-> args.state_preprocessing_options,
     action_preprocessing_options |-> args.action_preprocessing_options,
     action_feature_override |-> args.action_feature_override,
     state_float_features |-> args.state_float_features,
     action_float_features |-> args.action_float_features,
     reader_options |-> args.reader_options,
     actor_net_builder |->
         [default_action_preprocessing |-> args.default_action_preprocessing],
     trainer |-> [has_add_observer |-> args.trainer_has_add_observer,
                  observers |-> <<>>],
     _state_preprocessing_options |-> args.state_preprocessing_options,
     _action_preprocessing_options |-> args.action_preprocessing_options,
     _metrics_to_score |-> None,
     _reward_options |-> None]

\* One manager is constructed, from arguments drawn from argsSet.
Construct(argsSet) ==
    /\ IsNone(self)
    /\ IsNone(ctorArgs)
    /\ \E args \in argsSet :
          /\ ctorArgs' = Some(args)
          /\ IF IsNone(PostInitFailure(args))
             THEN /\ self' = Some(PostInitFields(args))
                  /\ ctorError' = None
             ELSE /\ self' = None
                  /\ ctorError' = PostInitFailure(args)
    /\ UNCHANGED <<identifyVars, trainVars, policyVars>>

---------------------------------------------------------------------------
(* ActorCriticBase.run_feature_identification *)

state_feature_config(m) == get_feature_config(m.state_float_features)

\* action_feature_config asserts a non-empty action_float_features.
ActionFeatureConfigFails(m) == ~(Len(m.action_float_features) > 0)

action_feature_config(m) == get_feature_config(Some(m.action_float_features))

FeatureIdsOf(config) ==
    [i \in DOMAIN config.float_feature_infos |->
        config.float_feature_infos[i].feature_id]

StateOptions(m) ==
    LET state_preprocessing_options ==
            IF IsNone(m._state_preprocessing_options)
            THEN PreprocessingOptions
            ELSE Get(m._state_preprocessing_options)
        state_features == FeatureIdsOf(state_feature_config(m))
    IN [state_preprocessing_options
            EXCEPT !.whitelist_features = Some(state_features)]

\* Faulty variant: the builder's default wins over the manager's override.
ResolvedOverrideDefaultWins(m) ==
    m.actor_net_builder.default_action_preprocessing

\* The transform applied to the action features: the builder's default,
\* replaced by the manager's action_feature_override when that is set.
ResolvedOverride(m) ==
    IF ~IsNone(m.action_feature_override)
    THEN Get(m.action_feature_override)
    ELSE m.actor_net_builder.default_action_preprocessing

BaseActionOptions(m) ==
    IF IsNone(m._action_preprocessing_options)
    THEN PreprocessingOptions
    ELSE Get(m._action_preprocessing_options)

\* The assertion on the caller's feature_overrides.
FeatureOverridesAssertFails(m) ==
    ~IsNone(BaseActionOptions(m).feature_overrides)

ActionOptions(m) ==
    LET action_features == FeatureIdsOf(action_feature_config(m))
        action_feature_override == ResolvedOverride(m)
    IN [BaseActionOptions(m) EXCEPT
          !.whitelist_features = Some(action_features),
          !.feature_overrides =
              Some([fid \in ToSet(action_features) |-> action_feature_override])]

required_normalization_keys == <<"STATE", "ACTION">>

NormalizationData(params) == [dense_normalization_parameters |-> params]

\* Faulty variant: the ACTION entry is left out of the returned mapping.
RfiReturnValueStateOnly(state_normalization_parameters, action_normalization_parameters) ==
    [key \in {"STATE"} |-> NormalizationData(state_normalization_parameters)]

RfiReturnValue(state_normalization_parameters, action_normalization_parameters) ==
    [key \in {"STATE", "ACTION"} |->
        IF key = "STATE"
        THEN NormalizationData(state_normalization_parameters)
        ELSE NormalizationData(action_normalization_parameters)]

\* The whole call, in source order: the state identification call, the
\* action feature configuration, the override, the feature_overrides
\* assertion, the action identification call, the returned mapping.
\* stateFails / actionFails: the identification capability raises.
RfiOutcome(m, table, stateFails, actionFails) ==
    LET stateCall == IdentifyCall(table, "STATE_FEATURES", StateOptions(m))
        actionCall == IdentifyCall(table, "ACTION", ActionOptions(m))
    IN IF stateFails
       THEN [status |-> "UpstreamError", error |-> "identify state",
             calls |-> <<stateCall>>, ret |-> None]
       ELSE IF ActionFeatureConfigFails(m)
       THEN [status |-> "AssertionError",
             error |-> "You must set action_float_features",
             calls |-> <<stateCall>>, ret |-> None]
       ELSE IF FeatureOverridesAssertFails(m)
       THEN [status |-> "AssertionError", error |-> "feature_overrides is None",
             calls |-> <<stateCall>>, ret |-> None]
       ELSE IF actionFails
       THEN [status |-> "UpstreamError", error |-> "identify action",
             calls |-> <<stateCall, actionCall>>, ret |-> None]
       ELSE [status |-> "returned", error |-> "",
             calls |-> <<stateCall, actionCall>>,
             ret |-> Some(RfiReturnValue(
                        identify_normalization_parameters(
                            table, "STATE_FEATURES", StateOptions(m)),
                        identify_normalization_parameters(
                            table, "ACTION", ActionOptions(m))))]

NoRfi == [status |-> "none", error |-> "", calls |-> <<>>, ret |-> None]

run_feature_identification(table, stateFails, actionFails) ==
    /\ ~IsNone(self)
    /\ idCallCount + 2 <= MaxIdCalls
    /\ LET out == RfiOutcome(Get(self), table, stateFails, actionFails)
       IN /\ lastRfi' = out
          /\ idCallCount' = idCallCount + Len(out.calls)
    /\ UNCHANGED <<managerVars, trainVars, policyVars>>

---------------------------------------------------------------------------
(* ActorCriticBase.metrics_to_score *)

MetricOrder == <<"m1", "m2">>

\* metric_reward_values is a set of <<metric name, reward value>> pairs.
MetricRewardValues == {None, Some({}), Some({<<"m2", 1>>}),
                       Some({<<"m1", 1>>, <<"m2", 2>>})}

RewardOptionsValues ==
    [custom_reward_expression : {None}, metric_reward_values : MetricRewardValues]

\* get_metrics_to_score: the metric names of the mapping, sorted; a list.
get_metrics_to_score(metric_reward_values) ==
    IF IsNone(metric_reward_values)
    THEN <<>>
    ELSE SelectSeq(MetricOrder,
            LAMBDA name : \E pair \in Get(metric_reward_values) : pair[1] = name)

\* The property's assertion: reward options are attached.
MtsAssertFails(m) == IsNone(m._reward_options)

\* Faulty variant: the cache test is a truth test, so an empty list is recomputed.
MtsMustComputeFalsy(m) ==
    IsNone(m._metrics_to_score) \/ Get(m._metrics_to_score) = <<>>

\* The property computes only while the backing field is None.
MtsMustCompute(m) == IsNone(m._metrics_to_score)

\* The manager after one read of the property.
MtsAfter(m) ==
    IF MtsMustCompute(m)
    THEN [m EXCEPT !._metrics_to_score =
            Some(get_metrics_to_score(Get(m._reward_options).metric_reward_values))]
    ELSE m

MtsResolverCalls(m) == IF MtsMustCompute(m) THEN 1 ELSE 0

MtsValue(m) == Get(MtsAfter(m)._metrics_to_score)

\* The base manager attaches the reward options before training.
AttachRewardOptions(reward_options) ==
    /\ ~IsNone(self)
    /\ trainPc = "idle"
    /\ self' = Some([Get(self) EXCEPT !._reward_options = Some(reward_options)])
    /\ UNCHANGED <<ctorArgs, ctorError, identifyVars, mtsLog, resolverCalls,
                   trainPc, trainCall, trainCount, driver, policyVars>>

\* One read of the property by a caller of the manager.
metrics_to_score ==
    /\ ~IsNone(self)
    /\ trainPc = "idle"
    /\ Len(mtsLog) < MaxAccesses
    /\ resolverCalls < MaxResolverCalls
    /\ IF MtsAssertFails(Get(self))
       THEN /\ mtsLog' = Append(mtsLog, None)
            /\ UNCHANGED <<self, resolverCalls>>
       ELSE /\ mtsLog' = Append(mtsLog, Some(MtsValue(Get(self))))
            /\ resolverCalls' = resolverCalls + MtsResolverCalls(Get(self))
            /\ self' = Some(MtsAfter(Get(self)))
    /\ UNCHANGED <<ctorArgs, ctorError, identifyVars, trainPc, trainCall,
                   trainCount, driver, policyVars>>

---------------------------------------------------------------------------
(* ActorCriticBase.train *)

ReaderOptionsValues == {None, Some("R1"), Some("R2")}

TrainArgs ==
    [train_dataset : {"D1"},
     eval_dataset : {None, Some("D2")},
     num_epochs : 1..MaxEpochs,
     reader_options : ReaderOptionsValues]

NoTrainCall ==
    [args |-> None, reporter |-> 0, signals |-> 0, evaluator |-> None,
     batch_preprocessor |-> None, result |-> "none", output |-> None]

NoDriver == [state |-> "not_called", kwargs |-> None, steps |-> 0]

\* reporter = ActorCriticReporter(); self.trainer.add_observer(reporter).
\* A reporter is named by the number of the train call that made it.
TrainerWithObserver(trainer, reporter) ==
    [trainer EXCEPT !.observers = Append(@, reporter)]

TrainAddTrainerObserver(args) ==
    /\ ~IsNone(self)
    /\ trainPc = "idle"
    /\ trainCount < MaxTrainCalls
    /\ trainCount' = trainCount + 1
    /\ driver' = NoDriver
    /\ LET reporter == trainCount + 1
           m == Get(self)
       IN IF m.trainer.has_add_observer
          THEN /\ self' = Some([m EXCEPT !.trainer =
                                  TrainerWithObserver(m.trainer, reporter)])
               /\ trainCall' = [NoTrainCall EXCEPT !.args = Some(args),
                                   !.reporter = reporter, !.result = "running"]
               /\ trainPc' = "evaluator"
          ELSE /\ trainCall' = [NoTrainCall EXCEPT !.args = Some(args),
                                   !.reporter = reporter,
                                   !.result = "AttributeError"]
               /\ trainPc' = "idle"
               /\ UNCHANGED self
    /\ UNCHANGED <<ctorArgs, ctorError, identifyVars, mtsLog, resolverCalls,
                   policyVars>>

\* evaluator = Evaluator(action_names=None, gamma=..., model=self.trainer,
\*                       metrics_to_score=self.metrics_to_score)
Evaluator(action_names, gamma, model, metrics) ==
    [action_names |-> action_names, gamma |-> gamma, model |-> model,
     metrics_to_score |-> metrics, observers |-> <<>>]

TrainBuildEvaluator ==
    /\ trainPc = "evaluator"
    /\ LET m == Get(self)
       IN IF MtsAssertFails(m)
          THEN /\ mtsLog' = Append(mtsLog, None)
               /\ trainCall' = [trainCall EXCEPT !.result = "AssertionError"]
               /\ trainPc' = "idle"
               /\ UNCHANGED <<self, resolverCalls>>
          ELSE /\ mtsLog' = Append(mtsLog, Some(MtsValue(m)))
               /\ resolverCalls' = resolverCalls + MtsResolverCalls(m)
               /\ self' = Some(MtsAfter(m))
               /\ trainCall' = [trainCall EXCEPT !.evaluator =
                     Some(Evaluator(None, "rl_parameters.gamma", "trainer",
                                    MtsValue(m)))]
               /\ trainPc' = "evaluator_observer"
    /\ UNCHANGED <<ctorArgs, ctorError, identifyVars, trainCount, driver,
                   policyVars>>

\* Faulty variant: the reporter is not registered on the evaluator.
EvaluatorWithObserverDropped(evaluator, reporter) == evaluator

\* evaluator.add_observer(reporter)
EvaluatorWithObserver(evaluator, reporter) ==
    [evaluator EXCEPT !.observers = Append(@, reporter)]

TrainAddEvaluatorObserver ==
    /\ trainPc = "evaluator_observer"
    /\ trainCall' = [trainCall EXCEPT !.evaluator =
          Some(EvaluatorWithObserver(Get(trainCall.evaluator), trainCall.reporter))]
    /\ trainPc' = "preprocessor"
    /\ UNCHANGED <<managerVars, identifyVars, mtsLog, resolverCalls, trainCount,
                   driver, policyVars>>

build_batch_preprocessor ==
    [state_preprocessor |->
        [normalization_parameters |-> "state_normalization_data",
         use_gpu |-> "use_gpu"],
     action_preprocessor |->
        [normalization_parameters |-> "action_normalization_data",
         use_gpu |-> "use_gpu"],
     use_gpu |-> "use_gpu"]

TrainBuildPreprocessor ==
    /\ trainPc = "preprocessor"
    /\ trainCall' = [trainCall EXCEPT
          !.batch_preprocessor = Some(build_batch_preprocessor)]
    /\ trainPc' = "driver"
    /\ UNCHANGED <<managerVars, identifyVars, mtsLog, resolverCalls, trainCount,
                   driver, policyVars>>

\* The keyword arguments of the train_and_evaluate_generic call.
DriverKwargs(m, call) ==
    [train_dataset |-> Get(call.args).train_dataset,
     eval_dataset |-> Get(call.args).eval_dataset,
     trainer |-> "trainer",
     num_epochs |-> Get(call.args).num_epochs,
     use_gpu |-> "use_gpu",
     batch_preprocessor |-> Get(call.batch_preprocessor),
     reporter |-> call.reporter,
     evaluator |-> Get(call.evaluator),
     reader_options |-> m.reader_options]

TrainCallDriver ==
    /\ trainPc = "driver"
    /\ driver' = [state |-> "running",
                  kwargs |-> Some(DriverKwargs(Get(self), trainCall)),
                  steps |-> 0]
    /\ trainPc' = "in_driver"
    /\ UNCHANGED <<managerVars, identifyVars, mtsLog, resolverCalls, trainCall,
                   trainCount, policyVars>>

\* train_and_evaluate_generic: one epoch; the trainer notifies its observers.
DriverEpoch ==
    /\ trainPc = "in_driver"
    /\ driver.steps < Get(driver.kwargs).num_epochs
    /\ driver' = [driver EXCEPT !.steps = @ + 1]
    /\ trainCall' = [trainCall EXCEPT !.signals =
          IF \E i \in DOMAIN Get(self).trainer.observers :
                Get(self).trainer.observers[i] = trainCall.reporter
          THEN @ + 1 ELSE @]
    /\ UNCHANGED <<managerVars, identifyVars, mtsLog, resolverCalls, trainPc,
                   trainCount, policyVars>>

DriverReturn ==
    /\ trainPc = "in_driver"
    /\ driver.steps = Get(driver.kwargs).num_epochs
    /\ driver' = [driver EXCEPT !.state = "returned"]
    /\ trainPc' = "report"
    /\ UNCHANGED <<managerVars, identifyVars, mtsLog, resolverCalls, trainCall,
                   trainCount, policyVars>>

\* A failure of the driver propagates unchanged to the caller of train.
DriverRaise ==
    /\ trainPc = "in_driver"
    /\ driver' = [driver EXCEPT !.state = "raised"]
    /\ trainCall' = [trainCall EXCEPT !.result = "DriverError"]
    /\ trainPc' = "idle"
    /\ UNCHANGED <<managerVars, identifyVars, mtsLog, resolverCalls, trainCount,
                   policyVars>>

\* RLTrainingOutput(training_report=RLTrainingReport.make_union_instance(
\*     reporter.generate_training_report()))
TrainReport ==
    /\ trainPc = "report"
    /\ trainCall' = [trainCall EXCEPT
          !.result = "returned",
          !.output = Some([training_report |->
                             [reporter |-> trainCall.reporter,
                              signals |-> trainCall.signals]])]
    /\ trainPc' = "idle"
    /\ UNCHANGED <<managerVars, identifyVars, mtsLog, resolverCalls, trainCount,
                   driver, policyVars>>

---------------------------------------------------------------------------
(* ActorPolicyWrapper.act on an actor network shared by threads of control *)

Threads == {"th1", "th2"}

NoLocal == [before |-> TRUE, fwd_mode |-> "none", step_mode |-> TRUE,
            output |-> None]

\* Faulty variant: the switch to evaluation mode is missing.
EvalModeSkipped(net) == net

\* self.actor_network.eval()
EvalMode(net) == [net EXCEPT !.training = FALSE]

\* self.actor_network.train()
TrainMode(net) == [net EXCEPT !.training = TRUE]

\* Callers that serialise start an operation only when no other is under way.
MayStart(th) ==
    /\ pc[th] = "idle"
    /\ serialised => \A other \in Threads : pc[other] = "idle"

\* act is entered and the network switched to evaluation mode.
ActEval(th) ==
    /\ MayStart(th)
    /\ local' = [local EXCEPT ![th].before = network.training,
                              ![th].output = None]
    /\ network' = EvalMode(network)
    /\ pc' = [pc EXCEPT ![th] = "forward"]
    /\ UNCHANGED <<managerVars, identifyVars, trainVars, serialised>>

\* output = self.actor_network(obs): the pass runs in the network's mode.
ActForward(th) ==
    /\ pc[th] = "forward"
    /\ local' = [local EXCEPT
          ![th].fwd_mode = IF network.training THEN "train" ELSE "eval",
          ![th].output = Some(IF network.training THEN "train" ELSE "eval")]
    /\ pc' = [pc EXCEPT ![th] = "train"]
    /\ UNCHANGED <<managerVars, identifyVars, trainVars, network, serialised>>

\* The network is switched to training mode and act returns the output.
ActTrain(th) ==
    /\ pc[th] = "train"
    /\ network' = TrainMode(network)
    /\ pc' = [pc EXCEPT ![th] = "returned"]
    /\ UNCHANGED <<managerVars, identifyVars, trainVars, serialised, local>>

\* The caller of act carries on.
ActReturned(th) ==
    /\ pc[th] = "returned"
    /\ pc' = [pc EXCEPT ![th] = "idle"]
    /\ UNCHANGED <<managerVars, identifyVars, trainVars, network, serialised,
                   local>>

\* A training step on the network begins in the mode it finds,
TrainStepBegin(th) ==
    /\ MayStart(th)
    /\ local' = [local EXCEPT ![th].step_mode = network.training]
    /\ pc' = [pc EXCEPT ![th] = "training"]
    /\ UNCHANGED <<managerVars, identifyVars, trainVars, network, serialised>>

\* and ends without touching the mode.
TrainStepEnd(th) ==
    /\ pc[th] = "training"
    /\ pc' = [pc EXCEPT ![th] = "idle"]
    /\ UNCHANGED <<managerVars, identifyVars, trainVars, network, serialised,
                   local>>

---------------------------------------------------------------------------
(* Specifications *)

InitManager ==
    /\ self = None
    /\ ctorArgs = None
    /\ ctorError = None
    /\ idCallCount = 0
    /\ lastRfi = NoRfi
    /\ mtsLog = <<>>
    /\ resolverCalls = 0
    /\ trainPc = "idle"
    /\ trainCall = NoTrainCall
    /\ trainCount = 0
    /\ driver = NoDriver

InitNetworkIdle ==
    /\ network = [training |-> TRUE]
    /\ serialised = TRUE
    /\ pc = [th \in Threads |-> "idle"]
    /\ local = [th \in Threads |-> NoLocal]

\* Construction and feature identification.
IdentifyArgs ==
    {ManagerArgs(spo, apo, afo, sff, aff, None, dap, TRUE) :
        spo \in {None} \cup {Some(o) : o \in PreprocessingOptionsValues},
        apo \in {None} \cup {Some(o) : o \in PreprocessingOptionsValues},
        afo \in {None} \cup {Some(t) : t \in Transforms},
        sff \in {None} \cup {Some(l) : l \in FloatFeatureLists},
        aff \in FloatFeatureLists,
        dap \in Transforms}

InitIdentify == InitManager /\ InitNetworkIdle

NextIdentify ==
    \/ Construct(IdentifyArgs)
    \/ \E stateFails, actionFails \in BOOLEAN :
          run_feature_identification("T", stateFails, actionFails)

SpecIdentify == InitIdentify /\ [][NextIdentify]_vars

\* Scoring metrics and training.
TrainManagerArgs ==
    {ManagerArgs(None, None, None, None, <<<<1, "f1">>>>, ro, "O2", obs) :
        ro \in ReaderOptionsValues, obs \in BOOLEAN}

InitTrain == InitManager /\ InitNetworkIdle

NextTrain ==
    \/ Construct(TrainManagerArgs)
    \/ \E reward_options \in RewardOptionsValues :
          AttachRewardOptions(reward_options)
    \/ metrics_to_score
    \/ \E args \in TrainArgs : TrainAddTrainerObserver(args)
    \/ TrainBuildEvaluator
    \/ TrainAddEvaluatorObserver
    \/ TrainBuildPreprocessor
    \/ TrainCallDriver
    \/ DriverEpoch
    \/ DriverReturn
    \/ DriverRaise
    \/ TrainReport

SpecTrain == InitTrain /\ [][NextTrain]_vars

\* The policy wrapper on a network in either mode, callers serialising or not.
InitPolicy ==
    /\ InitManager
    /\ network \in [training : BOOLEAN]
    /\ serialised \in BOOLEAN
    /\ pc = [th \in Threads |-> "idle"]
    /\ local = [th \in Threads |-> NoLocal]

NextPolicy ==
    \E th \in Threads :
        \/ ActEval(th)
        \/ ActForward(th)
        \/ ActTrain(th)
        \/ ActReturned(th)
        \/ TrainStepBegin(th)
        \/ TrainStepEnd(th)

SpecPolicy == InitPolicy /\ [][NextPolicy]_vars

---------------------------------------------------------------------------
(* Properties *)

\* C1: for a network starting in training mode and for one starting in
\* evaluation mode alike, when act returns (callers serialised) the network's
\* training flag equals the value it had immediately before the call.
ActLeavesModeAsFound ==
    \A th \in Threads :
        (serialised /\ pc[th] = "returned")
            => network.training = local[th].before

RfiRan == ~IsNone(self) /\ lastRfi.status \notin {"none", "UpstreamError"}

\* C2: when action_float_features is empty, run_feature_identification fails
\* with a precondition failure and, at that failure, the identification
\* capability has been called zero times by the call.
EmptyActionFeaturesFailBeforeIdentify ==
    (RfiRan /\ Len(Get(self).action_float_features) = 0)
        => (lastRfi.status = "AssertionError" /\ Len(lastRfi.calls) = 0)

CallerSetFeatureOverrides(m) ==
    /\ ~IsNone(m.action_preprocessing_options)
    /\ ~IsNone(Get(m.action_preprocessing_options).feature_overrides)

\* C3: when the caller's action preprocessing options already carry
\* feature_overrides, run_feature_identification fails as a configuration
\* error with zero calls made to the identification capability (stated for a
\* non-empty action_float_features, so that this is the assertion that fails).
PresetOverridesFailBeforeIdentify ==
    (/\ RfiRan
     /\ CallerSetFeatureOverrides(Get(self))
     /\ Len(Get(self).action_float_features) > 0)
        => (lastRfi.status = "AssertionError" /\ Len(lastRfi.calls) = 0)

WhitelistPreset(options) ==
    ~IsNone(options) /\ ~IsNone(Get(options).whitelist_features)

\* C4: if either preprocessing options value is supplied with
\* whitelist_features set, construction fails: no manager exists, and the
\* identification capability is never called.
WhitelistFailsConstruction ==
    (/\ ~IsNone(ctorArgs)
     /\ \/ WhitelistPreset(Get(ctorArgs).state_preprocessing_options)
        \/ WhitelistPreset(Get(ctorArgs).action_preprocessing_options))
        => /\ IsNone(self)
           /\ ~IsNone(ctorError)
           /\ idCallCount = 0
           /\ lastRfi = NoRfi

\* A construction refused for the action options alone.
WhitelistFailsConstructionWitness ==
    /\ ~IsNone(ctorArgs)
    /\ ~WhitelistPreset(Get(ctorArgs).state_preprocessing_options)
    /\ WhitelistPreset(Get(ctorArgs).action_preprocessing_options)
    /\ IsNone(self)

ActionFeatureIds(m) ==
    {m.action_float_features[i][1] : i \in DOMAIN m.action_float_features}

\* C5: the options of the action identification call have feature_overrides
\* mapping every action feature id, and no other id, to one same transform:
\* the manager's action_feature_override when it is set, otherwise the
\* actor-net builder's default_action_preprocessing.
ActionOverridesBroadcast ==
    \A i \in DOMAIN lastRfi.calls :
        lastRfi.calls[i].column = "ACTION" =>
            LET m == Get(self)
                overrides == lastRfi.calls[i].options.feature_overrides
                expected == IF m.action_feature_override = None
                            THEN m.actor_net_builder.default_action_preprocessing
                            ELSE m.action_feature_override[1]
            IN /\ ~IsNone(overrides)
               /\ DOMAIN Get(overrides) = ActionFeatureIds(m)
               /\ \A fid \in DOMAIN Get(overrides) : Get(overrides)[fid] = expected

\* An explicit O1 over a default O2, broadcast to two action features.
ActionOverridesBroadcastWitness ==
    /\ lastRfi.status = "returned"
    /\ Get(self).action_feature_override = Some("O1")
    /\ Get(self).actor_net_builder.default_action_preprocessing = "O2"
    /\ ActionFeatureIds(Get(self)) = {1, 2}
    /\ lastRfi.calls[2].options.feature_overrides
          = Some([fid \in {1, 2} |-> "O1"])

\* C6: within one train call the reporter is an observer of the trainer and
\* of the evaluator whenever the driver has been invoked, and the training
\* report exists only once the driver has returned.
ReporterRegisteredBeforeDriver ==
    /\ driver.state # "not_called" =>
          /\ Get(driver.kwargs).reporter = trainCall.reporter
          /\ trainCall.reporter \in ToSet(Get(self).trainer.observers)
          /\ trainCall.reporter \in ToSet(Get(trainCall.evaluator).observers)
          /\ trainCall.reporter \in ToSet(Get(driver.kwargs).evaluator.observers)
    /\ ~IsNone(trainCall.output) => driver.state = "returned"

\* A second train call on the manager that ran to its report.
ReporterRegisteredBeforeDriverWitness ==
    /\ trainCount = 2
    /\ trainCall.result = "returned"
    /\ driver.steps = 2
    /\ Get(trainCall.output).training_report.signals = 2

\* C7: the reader options handed to the driver are the reader_options
\* argument of the train call, whatever the manager's reader_options field.
DriverGetsReaderOptionsArgument ==
    driver.state = "running" =>
        Get(driver.kwargs).reader_options = Get(trainCall.args).reader_options

MtsReturned == SelectSeq(mtsLog, LAMBDA v : ~IsNone(v))

\* C8: over any sequence of metrics_to_score reads on one manager with reward
\* options attached, the resolver is invoked exactly once, on the first read,
\* and every later read returns that same value.
ResolverCalledOnce ==
    /\ Len(MtsReturned) = 0 => resolverCalls = 0
    /\ Len(MtsReturned) > 0 =>
          /\ resolverCalls = 1
          /\ \A i \in DOMAIN MtsReturned : MtsReturned[i] = MtsReturned[1]

\* Three reads of an empty metric list, the last after other reward options
\* were attached.
ResolverCalledOnceWitness ==
    /\ Len(MtsReturned) >= 3
    /\ MtsReturned[3] = Some(<<>>)
    /\ ~IsNone(self)
    /\ Get(Get(self)._reward_options).metric_reward_values
          = Some({<<"m1", 1>>, <<"m2", 2>>})

\* C9: every run_feature_identification call that returns yields a mapping
\* whose key set is exactly that of required_normalization_keys.
ReturnedKeysAreRequired ==
    lastRfi.status = "returned" =>
        /\ DOMAIN Get(lastRfi.ret) = ToSet(required_normalization_keys)
        /\ DOMAIN Get(lastRfi.ret) = {"STATE", "ACTION"}

\* A returned call of a manager with no state features.
ReturnedKeysAreRequiredWitness ==
    /\ lastRfi.status = "returned"
    /\ IsNone(Get(self).state_float_features)
    /\ DOMAIN Get(lastRfi.ret)["STATE"].dense_normalization_parameters = {}
    /\ DOMAIN Get(lastRfi.ret)["ACTION"].dense_normalization_parameters # {}

\* C10: a forward pass of act in training mode happens only when the callers
\* do not serialise: with all accesses to the network serialised, every act
\* forward pass runs in evaluation mode.
SerialisedForwardRunsInEval ==
    serialised =>
        \A th \in Threads :
            /\ pc[th] = "forward" => ~network.training
            /\ local[th].fwd_mode \in {"none", "eval"}

\* Interleaved: th1's forward pass of act ran in training mode (th2's act
\* switched the mode under it), and th2's training step, begun in training
\* mode, now runs in evaluation mode (th1's next act switched it).
InterleavedModeCorruption ==
    /\ ~serialised
    /\ local["th1"].fwd_mode = "train"
    /\ pc["th1"] = "forward"
    /\ pc["th2"] = "training"
    /\ local["th2"].step_mode = TRUE
    /\ network.training = FALSE

====
